---- MODULE Spec2Model ----
(***************************************************************************)
(* State-machine model of CanvasEdge (daemon/core/gui/graph/edges.py): one *)
(* interactive edge, the canvas primitives it owns (one line, its text     *)
(* labels) and the canvas-level wireless bookkeeping it writes.            *)
(*                                                                         *)
(* Coordinates are pixel positions that are multiples of 20, so that the   *)
(* code's "/ 2" and "0.30 *" are exact in integer arithmetic.  self.arc is *)
(* 0 for every edge this file builds, so the arc * sin(t) / arc * cos(t)   *)
(* terms of _get_midpoint vanish.  The stacking order changed by tag_raise *)
(* and the label strings are not part of the modelled state.               *)
(***************************************************************************)
EXTENDS Integers, Sequences, FiniteSets, TLC

\* ---- bounds -----------------------------------------------------------
MaxCoord == 1
NumNodes == 4
MaxAntennas == 1
MaxTexts == 4

\* ---- program constants ------------------------------------------------
\* TEXT_DISTANCE = 0.30 as the fraction TEXT_DISTANCE_NUM / TEXT_DISTANCE_DEN
TEXT_DISTANCE_NUM == 3
TEXT_DISTANCE_DEN == 10
EDGE_WIDTH == 3
EDGE_COLOR == "#ff0000"
\* host configuration of the canvas (CanvasGraph attributes)
throughput_threshold == 1
throughput_width == 10
throughput_color == "#FF0000"

\* Python's None for handles, primitive ids and the last throughput sample
\* (real ones are 1 or more), and for the token
None == 0
NoToken == << >>

\* positions the canvas hands in: x and y both vary and differ
Points == {<< 20 * i, 40 * i >> : i \in 0..MaxCoord}
Nodes == 1..NumNodes
\* throughput samples at the threshold and just above it
Throughputs == {1000 * throughput_threshold, 1000 * throughput_threshold + 1}
\* canvas ids: nodes come first, then the edge's line, then its texts
LineId == NumNodes + 1
FirstTextId == NumNodes + 2

VARIABLES
    src, dst, token, id,            \* Edge fields
    text_src, text_dst, text_middle, link,   \* CanvasEdge fields
    canvas_line,                    \* the line primitive on the canvas
    canvas_text,                    \* live text primitives: id -> <<x, y>>
    next_id,                        \* next id the canvas hands out
    wireless_network,               \* canvas.wireless_network: hub -> peers
    antennas,                       \* add_antenna() calls per node
    lastOp, err,                    \* last public call and whether it raised
    lastArgs,                       \* arguments of a move_node / create_context call
    context,                        \* the menu that call built and posted
    sampled, lastValue              \* set_throughput history

vars == << src, dst, token, id, text_src, text_dst, text_middle, link,
           canvas_line, canvas_text, next_id, wireless_network, antennas,
           lastOp, err, lastArgs, context, sampled, lastValue >>

\* ---- pure helpers -----------------------------------------------------
NodeType(n) ==
    IF n % 3 = 1 THEN "DEFAULT"
    ELSE IF n % 3 = 2 THEN "WIRELESS_LAN" ELSE "EMANE"

is_wireless_node(t) == t \in {"WIRELESS_LAN", "EMANE"}

\* create_edge_token without the sort
create_edge_token_unsorted(a, b) == << a, b >>

create_edge_token(a, b) == IF a <= b THEN << a, b >> ELSE << b, a >>

\* Edge.create_token: the classmethod, tuple(sorted([src, dst])) as well
create_token(a, b) == IF b < a THEN << b, a >> ELSE << a, b >>

\* _get_midpoint that reads src_y where it means src_x, as line 57 does in
\* the angle
_get_midpoint_src_y(src_pos, dst_pos) ==
    << (src_pos[2] + dst_pos[1]) \div 2, (src_pos[2] + dst_pos[2]) \div 2 >>

_get_midpoint(src_pos, dst_pos) ==
    << (src_pos[1] + dst_pos[1]) \div 2, (src_pos[2] + dst_pos[2]) \div 2 >>

\* canvas.coords(item): the coordinate list, empty for a deleted item
LineCoords == IF canvas_line.exists THEN canvas_line.coords ELSE << >>

\* Edge.move_dst / Edge.move_src: the new coordinate list of the line
move_dst(c, x, y) ==
    LET src_pos == << c[1], c[2] >>
        mid_pos == _get_midpoint(src_pos, << x, y >>)
    IN  << src_pos[1], src_pos[2], mid_pos[1], mid_pos[2], x, y >>

move_src(c, x, y) ==
    LET dst_pos == << c[5], c[6] >>
        mid_pos == _get_midpoint(<< x, y >>, dst_pos)
    IN  << x, y, mid_pos[1], mid_pos[2], dst_pos[1], dst_pos[2] >>

\* CanvasEdge.get_coordinates on a six-number coordinate list
get_coordinates(c) ==
    LET x1 == c[1]
        y1 == c[2]
        x2 == c[5]
        y2 == c[6]
        ux == (TEXT_DISTANCE_NUM * (x2 - x1)) \div TEXT_DISTANCE_DEN
        uy == (TEXT_DISTANCE_NUM * (y2 - y1)) \div TEXT_DISTANCE_DEN
    IN  << x1 + ux, y1 + uy, x2 - ux, y2 - uy >>

\* CanvasEdge.get_midpoint: unpacks the coordinate list into four names,
\* which raises ValueError unless the list has exactly four numbers
get_midpoint_ok(c) == Len(c) = 4
get_midpoint(c) == << (c[1] + c[3]) \div 2, (c[2] + c[4]) \div 2 >>

\* ---- initial state: CanvasEdge.__init__ -------------------------------
Init ==
    /\ src \in Nodes
    /\ dst = None
    /\ token = NoToken
    /\ id = LineId
    /\ text_src = None /\ text_dst = None /\ text_middle = None
    /\ link = None
    /\ \E sp \in Points, dp \in Points :
          LET mp == _get_midpoint(sp, dp)
          IN  canvas_line = [exists |-> TRUE,
                             coords |-> << sp[1], sp[2], mp[1], mp[2], dp[1], dp[2] >>,
                             fill |-> EDGE_COLOR, width |-> EDGE_WIDTH,
                             state |-> "normal"]
    /\ canvas_text = << >>
    /\ next_id = FirstTextId
    /\ wireless_network = << >>
    /\ antennas = [n \in Nodes |-> 0]
    /\ lastOp = "init" /\ err = FALSE
    /\ lastArgs = << >>
    /\ context = << >>
    /\ sampled = FALSE /\ lastValue = None

\* ---- canvas primitives ------------------------------------------------
\* canvas.coords(item, x, y) on a text: moves it when it is on the canvas
canvas_coords(texts, item, x, y) ==
    IF item \in DOMAIN texts THEN [texts EXCEPT ![item] = << x, y >>] ELSE texts

\* canvas.delete(item) on a text; delete(None) and deleting a missing id
\* are accepted by the canvas
canvas_delete(texts, item) ==
    [i \in (DOMAIN texts) \ {item} |-> texts[i]]

\* canvas.itemconfig(self.id, fill=, width=): nothing matches a deleted id
itemconfig_style(line, color, width) ==
    IF line.exists THEN [line EXCEPT !.fill = color, !.width = width] ELSE line

\* what is left of a deleted line primitive
NoLine == [exists |-> FALSE, coords |-> << >>, fill |-> "", width |-> 0,
           state |-> ""]

\* ---- Edge.move_node ----------------------------------------------------
\* move_node that always takes the destination branch
Edge_move_node_dst_only(c, node_id, x, y) == move_dst(c, x, y)

Edge_move_node(c, node_id, x, y) ==
    IF src = node_id THEN move_src(c, x, y) ELSE move_dst(c, x, y)

\* ---- CanvasEdge.update_labels ------------------------------------------
\* c is the line's coordinate list (six numbers).  none_raises is the
\* tkinter build's answer to canvas.coords(None, x, y): builds that cut the
\* Tcl command at the first None raise TclError ("wrong # args"), builds
\* that drop None find no item and do nothing.
\* update_labels that forgets the destination label
update_labels_stale_dst(texts, c, none_raises) ==
    LET p == get_coordinates(c)
        t1 == canvas_coords(texts, text_src, p[1], p[2])
    IN  IF text_src = None /\ none_raises
        THEN [texts |-> texts, raised |-> TRUE]
        ELSE [texts |-> t1, raised |-> FALSE]

update_labels(texts, c, none_raises) ==
    LET p == get_coordinates(c)
        t1 == canvas_coords(texts, text_src, p[1], p[2])
        t2 == canvas_coords(t1, text_dst, p[3], p[4])
    IN  IF text_src = None /\ none_raises
        THEN [texts |-> texts, raised |-> TRUE]
        ELSE IF text_dst = None /\ none_raises
        THEN [texts |-> t1, raised |-> TRUE]
        ELSE IF text_middle # None
        THEN IF get_midpoint_ok(c)
             THEN LET m == get_midpoint(c)
                  IN  [texts |-> canvas_coords(t2, text_middle, m[1], m[2]),
                       raised |-> FALSE]
             ELSE [texts |-> t2, raised |-> TRUE]
        ELSE [texts |-> t2, raised |-> FALSE]

\* ---- CanvasEdge.move_node(node_id, x, y) -------------------------------
\* the answers of the tkinter build that the call can meet: the question
\* only arises when an endpoint label reference is None
NoneAnswers ==
    IF text_src = None \/ text_dst = None THEN BOOLEAN ELSE {FALSE}

MoveNode(node_id, x, y) ==
    /\ lastOp' = "move_node"
    /\ lastArgs' = << node_id, x, y >>
    /\ context' = << >>
    /\ IF ~canvas_line.exists
       THEN \* canvas.coords(self.id) is empty: the six-name unpack raises
            /\ err' = TRUE
            /\ UNCHANGED << canvas_line, canvas_text >>
       ELSE \E none_raises \in NoneAnswers :
            LET c == Edge_move_node(LineCoords, node_id, x, y)
                r == update_labels(canvas_text, c, none_raises)
            IN  /\ canvas_line' = [canvas_line EXCEPT !.coords = c]
                /\ canvas_text' = r.texts
                /\ err' = r.raised
    /\ UNCHANGED << src, dst, token, id, text_src, text_dst, text_middle, link,
                    next_id, wireless_network, antennas, sampled, lastValue >>

\* ---- CanvasEdge.draw_labels --------------------------------------------
\* the canvas after the two create_text calls, which take ids n and n + 1
draw_labels(texts, c, n) ==
    LET p == get_coordinates(c)
    IN  (n :> << p[1], p[2] >>) @@ ((n + 1) :> << p[3], p[4] >>) @@ texts

\* ---- CanvasEdge.set_link(link) -----------------------------------------
SetLink(l) ==
    /\ next_id + 2 <= FirstTextId + MaxTexts
    /\ lastOp' = "set_link"
    /\ lastArgs' = << >>
    /\ context' = << >>
    /\ link' = l
    /\ IF ~canvas_line.exists
       THEN \* get_coordinates unpacks an empty list: ValueError
            /\ err' = TRUE
            /\ UNCHANGED << text_src, text_dst, canvas_text, next_id >>
       ELSE /\ canvas_text' = draw_labels(canvas_text, LineCoords, next_id)
            /\ text_src' = next_id
            /\ text_dst' = next_id + 1
            /\ next_id' = next_id + 2
            /\ err' = FALSE
    /\ UNCHANGED << src, dst, token, id, text_middle, canvas_line,
                    wireless_network, antennas, sampled, lastValue >>

\* ---- CanvasEdge.set_throughput(throughput) -----------------------------
\* 0.001 * throughput > throughput_threshold, in exact arithmetic
above_threshold(throughput) == throughput > 1000 * throughput_threshold

throughput_style(line, throughput) ==
    IF above_threshold(throughput)
    THEN itemconfig_style(line, throughput_color, throughput_width)
    ELSE itemconfig_style(line, EDGE_COLOR, EDGE_WIDTH)

SetThroughput(throughput) ==
    /\ lastOp' = "set_throughput"
    /\ lastArgs' = << >>
    /\ context' = << >>
    /\ lastValue' = throughput
    /\ sampled' = TRUE
    /\ IF text_middle = None
       THEN IF get_midpoint_ok(LineCoords)
            THEN LET m == get_midpoint(LineCoords)
                 IN  /\ text_middle' = next_id
                     /\ canvas_text' = (next_id :> m) @@ canvas_text
                     /\ next_id' = next_id + 1
                     /\ canvas_line' = throughput_style(canvas_line, throughput)
                     /\ err' = FALSE
            ELSE \* get_midpoint raises before the label and the style
                 /\ err' = TRUE
                 /\ UNCHANGED << text_middle, canvas_text, next_id, canvas_line >>
       ELSE /\ canvas_line' = throughput_style(canvas_line, throughput)
            /\ err' = FALSE
            /\ UNCHANGED << text_middle, canvas_text, next_id >>
    /\ UNCHANGED << src, dst, token, id, text_src, text_dst, link,
                    wireless_network, antennas >>

\* ---- CanvasEdge.reset() ------------------------------------------------
\* reset that writes the throughput width instead of EDGE_WIDTH
reset_line_escalated(line) == itemconfig_style(line, EDGE_COLOR, throughput_width)

reset_line(line) == itemconfig_style(line, EDGE_COLOR, EDGE_WIDTH)

Reset ==
    /\ lastOp' = "reset"
    /\ lastArgs' = << >>
    /\ context' = << >>
    /\ err' = FALSE
    /\ canvas_text' = canvas_delete(canvas_text, text_middle)
    /\ text_middle' = None
    /\ canvas_line' = reset_line(canvas_line)
    /\ sampled' = FALSE
    /\ UNCHANGED << src, dst, token, id, text_src, text_dst, link, next_id,
                    wireless_network, antennas, lastValue >>

\* ---- CanvasEdge.delete() -----------------------------------------------
Delete ==
    /\ lastOp' = "delete"
    /\ lastArgs' = << >>
    /\ context' = << >>
    /\ err' = FALSE
    /\ canvas_line' = NoLine
    /\ canvas_text' = canvas_delete(canvas_delete(canvas_delete(canvas_text,
                           text_src), text_dst), text_middle)
    /\ UNCHANGED << src, dst, token, id, text_src, text_dst, text_middle, link,
                    next_id, wireless_network, antennas, sampled, lastValue >>

\* ---- wireless classification -------------------------------------------
is_src_wireless(s) == is_wireless_node(NodeType(s))
is_dst_wireless(d) == is_wireless_node(NodeType(d))

\* CanvasEdge.is_wireless: its write to canvas.wireless_network ...
\* is_wireless whose add() sits in the else of the "not in" test
is_wireless_network_add_in_else(wn, s, d) ==
    LET join(h, p) == IF h \in DOMAIN wn
                      THEN (h :> (wn[h] \cup {p})) @@ wn
                      ELSE (h :> {}) @@ wn
    IN  IF is_src_wireless(s) /\ ~is_dst_wireless(d)
        THEN join(s, d)
        ELSE IF ~is_src_wireless(s) /\ is_dst_wireless(d)
        THEN join(d, s)
        ELSE wn

\* is_wireless that makes a new set for the hub on every call
is_wireless_network_new_set(wn, s, d) ==
    IF is_src_wireless(s) /\ ~is_dst_wireless(d)
    THEN (s :> {d}) @@ wn
    ELSE IF ~is_src_wireless(s) /\ is_dst_wireless(d)
    THEN (d :> {s}) @@ wn
    ELSE wn

\* is_wireless without its branch for a wireless destination
is_wireless_network_src_only(wn, s, d) ==
    LET peers(h) == IF h \in DOMAIN wn THEN wn[h] ELSE {}
    IN  IF is_src_wireless(s) /\ ~is_dst_wireless(d)
        THEN (s :> (peers(s) \cup {d})) @@ wn
        ELSE wn

is_wireless_network(wn, s, d) ==
    LET peers(h) == IF h \in DOMAIN wn THEN wn[h] ELSE {}
    IN  IF is_src_wireless(s) /\ ~is_dst_wireless(d)
        THEN (s :> (peers(s) \cup {d})) @@ wn
        ELSE IF ~is_src_wireless(s) /\ is_dst_wireless(d)
        THEN (d :> (peers(d) \cup {s})) @@ wn
        ELSE wn

\* ... and its return value
is_wireless(s, d) == is_src_wireless(s) \/ is_dst_wireless(d)

\* CanvasEdge._check_antenna: the add_antenna() calls it makes
\* _check_antenna whose last branch marks the destination
_check_antenna_dst_tie(ant, s, d) ==
    IF is_src_wireless(s) \/ is_dst_wireless(d)
    THEN IF is_src_wireless(s) /\ ~is_dst_wireless(d)
         THEN [ant EXCEPT ![d] = @ + 1]
         ELSE IF ~is_src_wireless(s) /\ is_dst_wireless(d)
         THEN [ant EXCEPT ![s] = @ + 1]
         ELSE [ant EXCEPT ![d] = @ + 1]
    ELSE ant

_check_antenna(ant, s, d) ==
    IF is_src_wireless(s) \/ is_dst_wireless(d)
    THEN IF is_src_wireless(s) /\ ~is_dst_wireless(d)
         THEN [ant EXCEPT ![d] = @ + 1]
         ELSE IF ~is_src_wireless(s) /\ is_dst_wireless(d)
         THEN [ant EXCEPT ![s] = @ + 1]
         ELSE [ant EXCEPT ![s] = @ + 1]
    ELSE ant

\* CanvasEdge.check_wireless: the line after the classification
\* check_wireless that looks at the source endpoint only
check_wireless_line_src_only(line, s, d) ==
    IF is_src_wireless(s) THEN [line EXCEPT !.state = "hidden"] ELSE line

check_wireless_line(line, s, d) ==
    IF is_wireless(s, d) THEN [line EXCEPT !.state = "hidden"] ELSE line

\* ---- CanvasEdge.complete(dst) ------------------------------------------
\* (x, y) is canvas.coords(dst), the destination node's place on the canvas
Complete(d, x, y) ==
    /\ \A n \in Nodes : antennas[n] < MaxAntennas
    /\ lastOp' = "complete"
    /\ lastArgs' = << >>
    /\ context' = << >>
    /\ dst' = d
    /\ token' = create_edge_token(src, d)
    /\ IF ~canvas_line.exists
       THEN \* move_dst unpacks an empty coordinate list: ValueError
            /\ err' = TRUE
            /\ UNCHANGED << canvas_line, wireless_network, antennas >>
       ELSE LET moved == [canvas_line EXCEPT !.coords = move_dst(LineCoords, x, y)]
            IN  /\ wireless_network' = is_wireless_network(wireless_network, src, d)
                /\ canvas_line' = check_wireless_line(moved, src, d)
                /\ antennas' = IF is_wireless(src, d)
                               THEN _check_antenna(antennas, src, d)
                               ELSE antennas
                /\ err' = FALSE
    /\ UNCHANGED << src, id, text_src, text_dst, text_middle, link, canvas_text,
                    next_id, sampled, lastValue >>

\* a classification run again on a completed edge may take a node's antenna
\* count one past what complete() is let to reach
MaxReclassified == MaxAntennas + 1

\* ---- CanvasEdge.is_wireless() called on its own -------------------------
\* canvas.nodes[None] raises KeyError on a pending edge
IsWireless ==
    /\ lastOp' = "is_wireless"
    /\ lastArgs' = << >>
    /\ context' = << >>
    /\ IF dst = None
       THEN err' = TRUE /\ UNCHANGED wireless_network
       ELSE /\ wireless_network' = is_wireless_network(wireless_network, src, dst)
            /\ err' = FALSE
    /\ UNCHANGED << src, dst, token, id, text_src, text_dst, text_middle, link,
                    canvas_line, canvas_text, next_id, antennas, sampled,
                    lastValue >>

\* ---- CanvasEdge.check_wireless() called on its own ----------------------
CheckWireless ==
    /\ \A n \in Nodes : antennas[n] < MaxReclassified
    /\ lastOp' = "check_wireless"
    /\ lastArgs' = << >>
    /\ context' = << >>
    /\ IF dst = None
       THEN /\ err' = TRUE
            /\ UNCHANGED << wireless_network, canvas_line, antennas >>
       ELSE /\ wireless_network' = is_wireless_network(wireless_network, src, dst)
            /\ canvas_line' = IF canvas_line.exists
                              THEN check_wireless_line(canvas_line, src, dst)
                              ELSE canvas_line
            /\ antennas' = IF is_wireless(src, dst)
                           THEN _check_antenna(antennas, src, dst)
                           ELSE antennas
            /\ err' = FALSE
    /\ UNCHANGED << src, dst, token, id, text_src, text_dst, text_middle, link,
                    canvas_text, next_id, sampled, lastValue >>

\* ---- complete() of another CanvasEdge on the same canvas ----------------
\* What the classification of a second edge from s to d writes to the data
\* the canvas shares between edges; that edge's own line and labels are its
\* own.
OtherEdgeComplete(s, d) ==
    /\ \A n \in Nodes : antennas[n] < MaxReclassified
    /\ lastOp' = "other_complete"
    /\ lastArgs' = << >>
    /\ context' = << >>
    /\ err' = FALSE
    /\ wireless_network' = is_wireless_network(wireless_network, s, d)
    /\ antennas' = IF is_wireless(s, d)
                   THEN _check_antenna(antennas, s, d)
                   ELSE antennas
    /\ UNCHANGED << src, dst, token, id, text_src, text_dst, text_middle, link,
                    canvas_line, canvas_text, next_id, sampled, lastValue >>

\* ---- CanvasEdge.redraw() ------------------------------------------------
\* create_labels reads self.link.HasField: AttributeError while link is
\* None.  With a link, itemconfig rewrites the two label strings; a None or
\* deleted label matches no item.
Redraw ==
    /\ lastOp' = "redraw"
    /\ lastArgs' = << >>
    /\ context' = << >>
    /\ err' = (link = None)
    /\ UNCHANGED << src, dst, token, id, text_src, text_dst, text_middle, link,
                    canvas_line, canvas_text, next_id, wireless_network,
                    antennas, sampled, lastValue >>

\* ---- CanvasEdge.create_context(event) -----------------------------------
\* the application switches tear-off entries off ("*tearOff" option), so
\* menu index 0 is the first command added
tearOff == FALSE

add_commands ==
    (IF tearOff THEN << [label |-> "", state |-> "normal"] >> ELSE << >>)
    \o << [label |-> "Configure", state |-> "normal"],
          [label |-> "Delete", state |-> "normal"],
          [label |-> "Split", state |-> "normal"],
          [label |-> "Merge", state |-> "normal"] >>

\* context.entryconfigure(index, state="disabled"), index counted from 0
entryconfigure(menu, index) ==
    [i \in DOMAIN menu |->
        IF i = index + 1 THEN [menu[i] EXCEPT !.state = "disabled"] ELSE menu[i]]

\* create_context that counts the entries to disable from 0
create_context_from_zero(is_runtime) ==
    IF is_runtime
    THEN entryconfigure(entryconfigure(entryconfigure(add_commands, 0), 1), 2)
    ELSE add_commands

\* the menu create_context posts; is_runtime is app.core.is_runtime()
create_context(is_runtime) ==
    IF is_runtime
    THEN entryconfigure(entryconfigure(entryconfigure(add_commands, 1), 2), 3)
    ELSE add_commands

CreateContext(is_runtime) ==
    /\ lastOp' = "create_context"
    /\ lastArgs' = << is_runtime >>
    /\ context' = create_context(is_runtime)
    /\ err' = FALSE
    /\ UNCHANGED << src, dst, token, id, text_src, text_dst, text_middle, link,
                    canvas_line, canvas_text, next_id, wireless_network,
                    antennas, sampled, lastValue >>

\* ---- specification -----------------------------------------------------
Links == {1}

\* a second edge joins the same two nodes as this one, in either direction
OtherEdges ==
    IF dst = None THEN {} ELSE {<< src, dst >>, << dst, src >>}

\* handles move_node is called with: the source, the destination once it is
\* set, and one node that is neither
MoveHandles ==
    {src} \cup ({dst} \ {None})
          \cup {CHOOSE n \in Nodes : n \notin {src, dst}}

\* The geometry and lifecycle of an edge whose link is bound once, over all
\* positions and samples.
Next ==
    \/ \E n \in MoveHandles, p \in Points : MoveNode(n, p[1], p[2])
    \/ \E l \in Links : text_src = None /\ SetLink(l)
    \/ \E v \in Throughputs : SetThroughput(v)
    \/ Reset
    \/ Delete
    \/ \E d \in Nodes, p \in Points : Complete(d, p[1], p[2])

Spec == Init /\ [][Next]_vars

\* Every public operation, set_link as often as the canvas has ids for, for
\* the properties of the shared wireless data, the label primitives and the
\* menu: positions and throughput samples are kept to one value each here,
\* geometry being the matter of Spec.
Origin == << 0, 0 >>
OneSample == 1000 * throughput_threshold + 1

InitAll ==
    /\ Init
    /\ canvas_line.coords = << Origin[1], Origin[2], Origin[1], Origin[2],
                               Origin[1], Origin[2] >>

NextAll ==
    \/ \E n \in MoveHandles : MoveNode(n, Origin[1], Origin[2])
    \/ \E l \in Links : SetLink(l)
    \/ SetThroughput(OneSample)
    \/ Reset
    \/ Delete
    \/ \E d \in Nodes : Complete(d, Origin[1], Origin[2])
    \/ IsWireless
    \/ CheckWireless
    \/ \E e \in OtherEdges : OtherEdgeComplete(e[1], e[2])
    \/ Redraw
    \/ \E r \in BOOLEAN : CreateContext(r)

SpecAll == InitAll /\ [][NextAll]_vars

TypeOK ==
    /\ src \in Nodes /\ dst \in Nodes \cup {None}
    /\ id = LineId
    /\ DOMAIN canvas_text \subseteq FirstTextId..(next_id - 1)
    /\ err \in BOOLEAN /\ sampled \in BOOLEAN

\* ======================================================================
\* Properties
\* ======================================================================
Line == canvas_line.coords
OnCanvas(item) == item \in DOMAIN canvas_text
OneWireless(s, d) ==
    is_wireless_node(NodeType(s)) # is_wireless_node(NodeType(d))
BothWireless(s, d) ==
    is_wireless_node(NodeType(s)) /\ is_wireless_node(NodeType(d))
NeitherWireless(s, d) ==
    ~is_wireless_node(NodeType(s)) /\ ~is_wireless_node(NodeType(d))

\* C1: on an edge whose link is bound and whose line is drawn, after every
\* move_node call the source label sits at (x1 + 0.30*(x2-x1),
\* y1 + 0.30*(y2-y1)) and the destination label at (x2 - 0.30*(x2-x1),
\* y2 - 0.30*(y2-y1)) of the line's current first and last points.
C1_EndpointLabelsFollowLine ==
    (lastOp = "move_node" /\ text_src # None /\ text_dst # None
        /\ canvas_line.exists)
    => /\ ~err
       /\ OnCanvas(text_src) /\ OnCanvas(text_dst)
       /\ 10 * canvas_text[text_src][1] = 10 * Line[1] + 3 * (Line[5] - Line[1])
       /\ 10 * canvas_text[text_src][2] = 10 * Line[2] + 3 * (Line[6] - Line[2])
       /\ 10 * canvas_text[text_dst][1] = 10 * Line[5] - 3 * (Line[5] - Line[1])
       /\ 10 * canvas_text[text_dst][2] = 10 * Line[6] - 3 * (Line[6] - Line[2])

C1_Witness ==
    /\ lastOp = "move_node" /\ ~err /\ link # None
    /\ text_src # None /\ text_dst # None /\ canvas_line.exists
    /\ Line[1] # Line[5] /\ Line[2] # Line[6]
    /\ canvas_text[text_src] # << Line[1], Line[2] >>
    /\ canvas_text[text_src] # canvas_text[text_dst]

\* C2: on a drawn edge set_throughput completes without error, and the
\* midpoint label text_middle is present exactly when a set_throughput call
\* has happened since creation or since the last reset.
C2_ThroughputLabelLazy ==
    canvas_line.exists
    => /\ (lastOp = "set_throughput" => ~err)
       /\ (text_middle # None /\ OnCanvas(text_middle)) <=> sampled

\* C3: once a throughput sample has put the midpoint label on a drawn edge,
\* every move_node call completes without error and leaves that label at
\* the midpoint of the line's first and last points.
C3_ThroughputLabelFollowsLine ==
    (lastOp = "move_node" /\ sampled /\ canvas_line.exists
        /\ text_src # None /\ text_dst # None)
    => /\ ~err
       /\ text_middle # None /\ OnCanvas(text_middle)
       /\ 2 * canvas_text[text_middle][1] = Line[1] + Line[5]
       /\ 2 * canvas_text[text_middle][2] = Line[2] + Line[6]

\* C4: a complete(dst) that finds exactly one wireless endpoint (the hub)
\* puts the other endpoint into the hub's set of canvas.wireless_network,
\* hides the line and requests one antenna on the other endpoint and none on
\* the hub, whichever side the hub is on.
C4_OneWirelessEndpoint ==
    [][(lastOp' = "complete" /\ ~err' /\ OneWireless(src, dst'))
       => LET hub == IF is_wireless_node(NodeType(src)) THEN src ELSE dst'
              peer == IF is_wireless_node(NodeType(src)) THEN dst' ELSE src
          IN  /\ hub \in DOMAIN wireless_network'
              /\ peer \in wireless_network'[hub]
              /\ canvas_line'.state = "hidden"
              /\ antennas'[peer] = antennas[peer] + 1
              /\ antennas'[hub] = antennas[hub]]_vars

C4_Witness ==
    /\ lastOp = "complete" /\ ~err
    /\ ~is_wireless_node(NodeType(src)) /\ is_wireless_node(NodeType(dst))
    /\ dst \in DOMAIN wireless_network /\ src \in wireless_network[dst]
    /\ canvas_line.state = "hidden"
    /\ antennas[src] = 1 /\ antennas[dst] = 0

\* C5: a complete(dst) that finds both endpoints wireless hides the line
\* and requests exactly one antenna, on the source endpoint.
C5_BothWireless ==
    [][(lastOp' = "complete" /\ ~err' /\ BothWireless(src, dst'))
       => /\ canvas_line'.state = "hidden"
          /\ antennas' = [antennas EXCEPT ![src] = @ + 1]]_vars

C5_Witness ==
    /\ lastOp = "complete" /\ ~err
    /\ BothWireless(src, dst) /\ src # dst
    /\ canvas_line.state = "hidden"
    /\ antennas[src] = 1 /\ antennas[dst] = 0

\* C6: after complete(dst) on a pending edge the line is hidden exactly when
\* an endpoint is wireless; with no wireless endpoint the line is visible,
\* the token is the sorted pair of src and dst, and canvas.wireless_network
\* and the antenna requests are as before the call.
C6_HiddenIffWireless ==
    [][(lastOp' = "complete" /\ ~err' /\ dst = None)
       => /\ (canvas_line'.state = "hidden") <=> ~NeitherWireless(src, dst')
          /\ NeitherWireless(src, dst')
             => /\ canvas_line'.state = "normal"
                /\ Len(token') = 2 /\ token'[1] <= token'[2]
                /\ {token'[1], token'[2]} = {src, dst'}
                /\ wireless_network' = wireless_network
                /\ antennas' = antennas]_vars

C6_Witness ==
    /\ lastOp = "complete" /\ ~err
    /\ NeitherWireless(src, dst) /\ dst < src
    /\ canvas_line.state = "normal"
    /\ token = << dst, src >>
    /\ DOMAIN wireless_network = {}
    /\ \A n \in Nodes : antennas[n] = 0

\* C7: after each set_throughput(value) on a drawn edge the line has the
\* host's throughput colour and width when 0.001 * value is strictly
\* greater than the threshold, and EDGE_COLOR / EDGE_WIDTH otherwise.
C7_StyleEscalation ==
    (lastOp = "set_throughput" /\ canvas_line.exists)
    => IF lastValue > 1000 * throughput_threshold
       THEN canvas_line.fill = throughput_color
            /\ canvas_line.width = throughput_width
       ELSE canvas_line.fill = EDGE_COLOR /\ canvas_line.width = EDGE_WIDTH

\* C8: reset() on a completed edge leaves no midpoint label (text_middle is
\* None, its primitive gone) and the line in EDGE_COLOR / EDGE_WIDTH,
\* whatever throughput samples came before, and leaves src, dst, token and
\* the two endpoint labels as they were.
C8_ResetRestoresDefaults ==
    [][(lastOp' = "reset" /\ dst # None /\ canvas_line.exists)
       => /\ ~err'
          /\ text_middle' = None
          /\ text_middle \notin DOMAIN canvas_text'
          /\ canvas_line'.fill = EDGE_COLOR /\ canvas_line'.width = EDGE_WIDTH
          /\ src' = src /\ dst' = dst /\ token' = token
          /\ text_src' = text_src /\ text_dst' = text_dst
          /\ \A t \in {text_src, text_dst} \cap DOMAIN canvas_text :
                t \in DOMAIN canvas_text' /\ canvas_text'[t] = canvas_text[t]]_vars

C8_Witness ==
    /\ lastOp = "reset" /\ ~err /\ ~sampled
    /\ dst # None /\ canvas_line.exists
    /\ lastValue > 1000 * throughput_threshold
    /\ text_src # None /\ OnCanvas(text_src)
    /\ text_middle = None
    /\ canvas_line.fill = EDGE_COLOR /\ canvas_line.width = EDGE_WIDTH

\* C9: delete() raises no error in any state, removes the line and every
\* label primitive the edge has, and afterwards none of id, text_src,
\* text_dst, text_middle refers to a primitive that no longer exists.
C9_DeleteLeavesNoDanglingReference ==
    lastOp = "delete"
    => /\ ~err
       /\ ~canvas_line.exists
       /\ \A t \in {text_src, text_dst, text_middle} : ~OnCanvas(t)
       /\ id = None
       /\ text_src = None /\ text_dst = None /\ text_middle = None

\* C10: after delete() no text primitive the edge created is left on the
\* canvas, and at no time does the canvas hold more than two endpoint label
\* primitives of the edge.
C10_NoOrphanTexts ==
    /\ lastOp = "delete" => DOMAIN canvas_text = {}
    /\ Cardinality(DOMAIN canvas_text \ {text_middle}) <= 2

\* C11: for all node handles a and b, create_edge_token(a, b) equals
\* create_edge_token(b, a), create_edge_token(a, a) is (a, a), and
\* Edge.create_token gives the same value as create_edge_token; the token a
\* completed edge holds is the one computed from its endpoints in either
\* order.
C11_TokenCommutative ==
    /\ \A a \in Nodes, b \in Nodes :
          /\ create_edge_token(a, b) = create_edge_token(b, a)
          /\ create_token(a, b) = create_edge_token(a, b)
    /\ \A a \in Nodes : create_edge_token(a, a) = << a, a >>
    /\ (lastOp = "complete")
       => token = create_edge_token(dst, src) /\ token = create_token(dst, src)

C11_Witness ==
    /\ lastOp = "complete" /\ ~err
    /\ dst # None /\ dst < src
    /\ token = << dst, src >>

\* C12: the token is absent while the edge is pending and, once assigned,
\* keeps its value through every later operation.
C12_TokenImmutable ==
    [][/\ (dst' = None => token' = NoToken)
       /\ (token # NoToken => token' = token)]_vars

\* C13: complete on an edge that is already completed is reported as an
\* error and leaves dst, token, canvas.wireless_network and the antenna
\* requests as the first call left them.
C13_CompleteGuarded ==
    [][(lastOp' = "complete" /\ dst # None)
       => /\ err'
          /\ dst' = dst /\ token' = token
          /\ wireless_network' = wireless_network
          /\ antennas' = antennas]_vars

\* C15: move_node with a handle that is neither src nor dst raises no error
\* and leaves the line's source, control and destination points unchanged.
C15_MoveUnknownHandleNoOp ==
    [][(lastOp' = "move_node" /\ canvas_line.exists
           /\ text_src # None /\ text_dst # None
           /\ lastArgs'[1] \notin {src, dst})
       => ~err' /\ canvas_line'.coords = canvas_line.coords]_vars

\* C19: move_node(handle, x, y) with handle = src puts the line's first
\* point at (x, y) and leaves its last point; with handle = dst (not src) it
\* puts the last point at (x, y) and leaves the first; either way the
\* control point is recomputed from the moved point and the other stored
\* endpoint.
C19_MoveNodeDispatch ==
    [][(lastOp' = "move_node" /\ canvas_line.exists)
       => LET h == lastArgs'[1]
              x == lastArgs'[2]
              y == lastArgs'[3]
              old == canvas_line.coords
              new == canvas_line'.coords
          IN  /\ h = src
                 => /\ << new[1], new[2] >> = << x, y >>
                    /\ << new[5], new[6] >> = << old[5], old[6] >>
                    /\ 2 * new[3] = x + old[5] /\ 2 * new[4] = y + old[6]
              /\ (h = dst /\ dst # src)
                 => /\ << new[5], new[6] >> = << x, y >>
                    /\ << new[1], new[2] >> = << old[1], old[2] >>
                    /\ 2 * new[3] = old[1] + x /\ 2 * new[4] = old[2] + y]_vars

C19_Witness ==
    /\ lastOp = "move_node" /\ canvas_line.exists
    /\ dst # None /\ dst # src /\ lastArgs[1] = dst
    /\ << Line[5], Line[6] >> = << lastArgs[2], lastArgs[3] >>
    /\ << Line[1], Line[2] >> # << Line[5], Line[6] >>

\* C20: with arc = 0 the control point of the drawn line is the exact
\* midpoint ((x1 + x2) / 2, (y1 + y2) / 2) of its first and last points in
\* every state that draw, move_node and complete lead to.
C20_ControlPointIsMidpoint ==
    canvas_line.exists
    => /\ 2 * Line[3] = Line[1] + Line[5]
       /\ 2 * Line[4] = Line[2] + Line[6]

C20_Witness ==
    /\ lastOp \in {"move_node", "complete"} /\ canvas_line.exists
    /\ Line[1] # Line[5] /\ Line[2] # Line[6]
    /\ Line[3] # Line[1] /\ Line[3] # Line[5]

\* C14: on a completed, drawn edge every further run of is_wireless or
\* check_wireless, and the classification of a second edge joining the same
\* two nodes, leaves canvas.wireless_network as the first run left it.
C14_ClassificationIdempotent ==
    [][(lastOp' \in {"is_wireless", "check_wireless", "other_complete"}
           /\ dst # None /\ canvas_line.exists)
       => wireless_network' = wireless_network]_vars

C14_Witness ==
    /\ lastOp = "other_complete" /\ ~err
    /\ dst # None /\ canvas_line.exists
    /\ is_wireless_node(NodeType(src)) /\ ~is_wireless_node(NodeType(dst))
    /\ DOMAIN wireless_network = {src}
    /\ wireless_network[src] = {dst}
    /\ antennas[dst] = 2

\* C16: on a drawn edge whose link was never bound (link, text_src and
\* text_dst absent) redraw() and move_node complete without raising and
\* create no label primitive.
C16_LabelOpsBeforeLink ==
    (lastOp \in {"redraw", "move_node"} /\ canvas_line.exists
        /\ link = None /\ text_src = None /\ text_dst = None)
    => ~err /\ DOMAIN canvas_text = {}

\* C17: the menu create_context builds holds Configure, Delete, Split and
\* Merge in that order; Delete, Split and Merge are disabled exactly when
\* is_runtime() is true, and Configure is enabled either way.
C17_ContextMenu ==
    lastOp = "create_context"
    => /\ Len(context) = 4
       /\ context[1].label = "Configure" /\ context[2].label = "Delete"
       /\ context[3].label = "Split" /\ context[4].label = "Merge"
       /\ context[1].state = "normal"
       /\ \A i \in 2..4 : (context[i].state = "disabled") <=> lastArgs[1]

C17_Witness ==
    /\ lastOp = "create_context" /\ ~err
    /\ lastArgs[1] = TRUE
    /\ context[1].state = "normal"
    /\ context[4].label = "Merge" /\ context[4].state = "disabled"

\* C18: no operation ever removes a hub or a peer from
\* canvas.wireless_network.
C18_WirelessNetworkMonotonic ==
    [][\A h \in DOMAIN wireless_network :
          /\ h \in DOMAIN wireless_network'
          /\ wireless_network[h] \subseteq wireless_network'[h]]_vars

C18_Witness ==
    /\ lastOp = "delete" /\ ~canvas_line.exists
    /\ dst # None
    /\ OneWireless(src, dst)
    /\ \E h \in DOMAIN wireless_network :
          h \in {src, dst} /\ wireless_network[h] \cap {src, dst} # {}

====
